---- MODULE Spec2Model ----
(***************************************************************************)
(* SyncMessagePort (sass/sync-message-port): two worker threads joined by *)
(* a MessageChannel, each wrapping its endpoint in a SyncMessagePort.     *)
(* The model follows lib/index.ts at 1.2.0 (two AtomicCounters per        *)
(* channel) and lib/atomic_counter.ts, one step per access to shared      *)
(* memory or to the transport queue.                                      *)
(***************************************************************************)
EXTENDS Integers, Sequences, FiniteSets, TLC

\* ------------------------------------------------------------------ bounds
\* postMessage calls made on each port
MaxSend == 3
\* 'message' listeners installed on one port at a time
MaxListeners == 2
\* messages queued on an endpoint that createChannel did not set up
MaxQueued == 2

\* ------------------------------------------------------------- vocabulary
Ports == {"port1", "port2"}
Peer(p) == IF p = "port1" THEN "port2" ELSE "port1"

\* One JavaScript thread owns each port; every call on a port runs on it.
Threads == {"main", "worker"}
PortOf(t) == IF t = "main" THEN "port1" ELSE "port2"

\* The calls the two threads make: the worker posts, the main thread consumes
\* (receiveMessage, receiveMessageIfAvailable, 'message' listeners); both
\* construct their port and both may close it.
Senders == {"worker"}
Receivers == {"main"}

\* buffer1 and buffer2 of createChannel
Counters == {1, 2}

\* Items of a transport queue.
None == [kind |-> "none", v |-> 0]
Sab(c) == [kind |-> "sab16", v |-> c]
Msg(n) == [kind |-> "msg", v |-> n]
\* What else a peer may have posted to an endpoint: a 16-byte ArrayBuffer (it
\* arrives as a copy, shared with nobody), a falsy value (0, '', null), any
\* other value (a string, an object, a buffer of another size).
Ab16 == [kind |-> "ab16", v |-> 0]
Falsy == [kind |-> "falsy", v |-> 0]
Other == [kind |-> "other", v |-> 0]

\* ReceiveMessageOptions: timeout is absent, 0 or a positive number of ms.
Timeouts == {"none", "zero", "finite"}
Options == [timeout : Timeouts, timeoutValue : BOOLEAN, closedValue : BOOLEAN]
NoOptions == [timeout |-> "none", timeoutValue |-> FALSE, closedValue |-> FALSE]

\* What a call gave back.
NoResult == [kind |-> "none", v |-> 0]
Returned(n) == [kind |-> "message", v |-> n]
Outcome(k) == [kind |-> k, v |-> 0]

\* What held when a receiveMessage call began: the posts its peer had made,
\* whether a completely sent payload was pending, whether the transport queue
\* was empty, the payload at its head (0: none), and the channel: "open" (no close() begun), "closed" (a close()
\* has returned) or "closing".
NoCall == [sent |-> 0, pending |-> FALSE, empty |-> FALSE, head |-> 0,
           channel |-> "none"]

VARIABLES
    buffer,         \* buffer[c][0]: the counter's value, buffer[c][1]: its closed word
    queue,          \* queue[p]: the transport's incoming queue of endpoint p
    tstate,         \* tstate[p]: "open", "closing" (port.close() called), "closed"
    ctor,           \* ctor[p]: "none", "ok" or "error": new SyncMessagePort(p)
    postCounter,    \* postCounter[p]: the counter p increments (0: none)
    receiveCounter, \* receiveCounter[p]: the counter p waits on and decrements
    listeners,      \* listeners[p]: 'message' listeners installed through on()
    shim,           \* shim[p]: times messageHandler is attached to the inner port
    op,             \* op[t]: the call thread t is in
    pc,             \* pc[t]: the statement thread t is at
    options,        \* options[t]: the options of the receiveMessage call in progress
    message,        \* message[t]: the local `message` / `buffer1`
    waitResult,     \* waitResult[t]: what wait() returned
    which,          \* which[t]: the counter close() is closing, "post" or "receive"
    sent,           \* sent[p]: postMessage calls made on p (payloads are 1, 2, ...)
    received,       \* received[p]: the payloads handed to p's consumers, in order
    via,            \* via[p]: the consumption paths that handed them over
    result,         \* result[t]: what the last finished call of t gave back
    call,           \* call[t]: what held when the receiveMessage in progress began
    owed,           \* owed[t]: the payload that arrived while t's receiveMessage waited
    closeDone       \* a close() call has returned on some port

vars == <<buffer, queue, tstate, ctor, postCounter, receiveCounter, listeners,
          shim, op, pc, options, message, waitResult, which, sent, received,
          via, result, call, owed, closeDone>>

shared == <<buffer, queue, tstate>>
portv == <<ctor, postCounter, receiveCounter, listeners, shim>>
locals == <<op, pc, options, message, waitResult, which, result, call, owed>>

\* ------------------------------------------------------------------- Init
\* (variant: both ports are queued buffer1, then buffer2)
createChannelUncrossed == [p \in Ports |-> <<Sab(1), Sab(2)>>]

\* createChannel(): two fresh 16-byte buffers, queued crossed on the two ports.
createChannel ==
    [p \in Ports |-> IF p = "port1" THEN <<Sab(1), Sab(2)>> ELSE <<Sab(2), Sab(1)>>]

\* Everything but the transport queues, before any constructor has run.
Fresh ==
    /\ buffer = [c \in Counters |-> [i \in 0..1 |-> 0]]
    /\ tstate = [p \in Ports |-> "open"]
    /\ ctor = [p \in Ports |-> "none"]
    /\ postCounter = [p \in Ports |-> 0]
    /\ receiveCounter = [p \in Ports |-> 0]
    /\ listeners = [p \in Ports |-> 0]
    /\ shim = [p \in Ports |-> 0]
    /\ op = [t \in Threads |-> "idle"]
    /\ pc = [t \in Threads |-> "idle"]
    /\ options = [t \in Threads |-> NoOptions]
    /\ message = [t \in Threads |-> None]
    /\ waitResult = [t \in Threads |-> TRUE]
    /\ which = [t \in Threads |-> "post"]
    /\ sent = [p \in Ports |-> 0]
    /\ received = [p \in Ports |-> <<>>]
    /\ via = [p \in Ports |-> {}]
    /\ result = [t \in Threads |-> NoResult]
    /\ call = [t \in Threads |-> NoCall]
    /\ owed = [t \in Threads |-> 0]
    /\ closeDone = FALSE

Init == queue = createChannel /\ Fresh

\* ------------------------------------------------------------ the transport
\* worker_threads' MessagePort, as SyncMessagePort uses it.  port.postMessage
\* appends to the peer's incoming queue; a port whose close() has been called
\* sends nothing, and a port whose handle is released receives nothing.
ThreadOf(p) == IF p = "port1" THEN "main" ELSE "worker"

Accepts(p) == tstate[p] = "open" /\ tstate[Peer(p)] # "closed"

\* (variant: nothing is queued by the time the counter is incremented)
portPostMessageSkipped(p, item) == queue

portPostMessage(p, item) ==
    IF Accepts(p) THEN [queue EXCEPT ![Peer(p)] = Append(@, item)] ELSE queue

\* receiveMessageOnPort(port): the head of the incoming queue, if any ...
receiveMessageOnPort(p) == IF queue[p] = <<>> THEN None ELSE Head(queue[p])

\* ... which it removes from the queue.
Dequeued(p) == [queue EXCEPT ![p] = IF @ = <<>> THEN @ ELSE Tail(@)]

\* The event loop releases the handle of a port whose close() was called; what
\* was still queued for it is dropped.
TransportClosed(t) ==
    LET p == PortOf(t) IN
    /\ pc[t] = "idle"
    /\ tstate[p] = "closing"
    /\ tstate' = [tstate EXCEPT ![p] = "closed"]
    /\ queue' = [queue EXCEPT ![p] = <<>>]
    /\ UNCHANGED <<buffer, portv, locals, sent, received, via, closeDone>>

\* ------------------------------------------------------------ thread steps
Goto(t, o, l) ==
    /\ op' = [op EXCEPT ![t] = o]
    /\ pc' = [pc EXCEPT ![t] = l]

\* The call o of thread t returns r (or throws it).
FinishAs(t, o, r) ==
    /\ Goto(t, o, "return")
    /\ result' = [result EXCEPT ![t] = r]
    /\ UNCHANGED <<options, message, waitResult, which, call, owed>>

Finish(t, r) == FinishAs(t, op[t], r)

\* The caller has the result and goes on; the locals of the call die.
Returns(t) ==
    /\ pc[t] = "return"
    /\ Goto(t, "idle", "idle")
    /\ result' = [result EXCEPT ![t] = NoResult]
    /\ options' = [options EXCEPT ![t] = NoOptions]
    /\ message' = [message EXCEPT ![t] = None]
    /\ waitResult' = [waitResult EXCEPT ![t] = TRUE]
    /\ call' = [call EXCEPT ![t] = NoCall]
    /\ owed' = [owed EXCEPT ![t] = 0]
    /\ UNCHANGED <<shared, portv, which, sent, received, via, closeDone>>

\* (variant: the consumer is handed the payload twice)
DeliverTwice(p, n, path) ==
    /\ received' = [received EXCEPT ![p] = Append(Append(@, n), n)]
    /\ via' = [via EXCEPT ![p] = @ \cup {path}]

\* A consumer of port p is handed payload n on the given path.
Deliver(p, n, path) ==
    /\ received' = [received EXCEPT ![p] = Append(@, n)]
    /\ via' = [via EXCEPT ![p] = @ \cup {path}]

Idle(t) == pc[t] = "idle" /\ ctor[PortOf(t)] = "ok"

\* ------------------------------------------------------- AtomicCounter.wait
Waiting == {"w_value", "w_closed", "w_wait", "w_blocked"}

\* The threads blocked in Atomics.wait on word 0 of counter c.
Waiters(c) ==
    {t \in Threads : pc[t] = "w_blocked" /\ receiveCounter[PortOf(t)] = c}

\* Where the caller of wait() goes on.
AfterWait(o) ==
    CASE o = "receiveMessage" -> "rm_receive"
      [] o = "receiveMessageIfAvailable" -> "if_decrement"
      [] OTHER -> "mh_decrement"

WaitReturns(t, r) ==
    /\ pc' = [pc EXCEPT ![t] = AfterWait(op[t])]
    /\ waitResult' = [waitResult EXCEPT ![t] = r]
    /\ UNCHANGED <<shared, portv, op, options, message, which, result, call,
                   owed, sent, received, via, closeDone>>

WaitGoesOn(t, l) ==
    /\ pc' = [pc EXCEPT ![t] = l]
    /\ UNCHANGED <<shared, portv, op, options, message, waitResult, which,
                   result, call, owed, sent, received, via, closeDone>>

\* while (Atomics.load(this.buffer, 0) === 0n && ...
WaitLoadValue(t) ==
    /\ pc[t] = "w_value"
    /\ IF buffer[receiveCounter[PortOf(t)]][0] # 0
         THEN WaitReturns(t, TRUE)
         ELSE WaitGoesOn(t, "w_closed")

\* (variant: wait() looks at the value alone)
WaitLoadClosedIgnored(t) ==
    /\ pc[t] = "w_closed"
    /\ WaitGoesOn(t, "w_wait")

\* (variant: a closed counter makes wait() return false)
WaitLoadClosedFalse(t) ==
    /\ pc[t] = "w_closed"
    /\ IF buffer[receiveCounter[PortOf(t)]][1] # 0
         THEN WaitReturns(t, FALSE)
         ELSE WaitGoesOn(t, "w_wait")

\* ... && Atomics.load(this.buffer, 1) === 0n)
WaitLoadClosed(t) ==
    /\ pc[t] = "w_closed"
    /\ IF buffer[receiveCounter[PortOf(t)]][1] # 0
         THEN WaitReturns(t, TRUE)
         ELSE WaitGoesOn(t, "w_wait")

\* (variant: a timeout of 0 blocks like any other)
AtomicsWaitBlocks(t) ==
    /\ pc[t] = "w_wait"
    /\ IF buffer[receiveCounter[PortOf(t)]][0] # 0
         THEN WaitReturns(t, TRUE)
         ELSE WaitGoesOn(t, "w_blocked")

\* Atomics.wait(this.buffer, 0, 0n, timeout): 'not-equal' at once when word 0
\* is not 0, 'timed-out' at once when the timeout is 0, else the thread blocks.
AtomicsWait(t) ==
    /\ pc[t] = "w_wait"
    /\ IF buffer[receiveCounter[PortOf(t)]][0] # 0
         THEN WaitReturns(t, TRUE)
         ELSE IF options[t].timeout = "zero"
                THEN WaitReturns(t, FALSE)
                ELSE WaitGoesOn(t, "w_blocked")

\* The timeout elapses in a blocked thread: 'timed-out'.
AtomicsWaitTimesOut(t) ==
    /\ pc[t] = "w_blocked"
    /\ options[t].timeout = "finite"
    /\ WaitReturns(t, FALSE)

\* (variant: a woken thread leaves wait() without loading the words again)
WokenReturns(t, l, W) ==
    [x \in Threads |->
        IF x = t THEN l ELSE IF x \in W THEN AfterWait(op[x]) ELSE pc[x]]

\* Atomics.notify wakes the threads of W: their Atomics.wait returns 'ok' and
\* the loop of wait() loads the words again.
Woken(t, l, W) ==
    [x \in Threads |-> IF x = t THEN l ELSE IF x \in W THEN "w_value" ELSE pc[x]]

\* -------------------------------------------- AtomicCounter.increment, decrement
\* (variant: the addition is lost)
addedNothing(b) == b

\* (variant: one post is counted twice)
addedTwice(b) == [b EXCEPT ![0] = @ + 2]

added(b) == [b EXCEPT ![0] = @ + 1]

\* (variant: the subtraction is lost)
subtractedNothing(b) == b

\* (variant: one payload is accounted for twice)
subtractedTwice(b) == [b EXCEPT ![0] = @ - 2]

\* (variant: the subtraction is made on the closed flag)
subtractedFlag(b) == [b EXCEPT ![1] = @ - 1]

subtracted(b) == [b EXCEPT ![0] = @ - 1]

\* ------------------------------------------------- SyncMessagePort.postMessage
\* this.port.postMessage(value, transferList)
PostMessageCall(t) ==
    LET p == PortOf(t)
        n == sent[p] + 1
    IN
    /\ Idle(t)
    /\ sent[p] < MaxSend
    /\ queue' = portPostMessage(p, Msg(n))
    /\ sent' = [sent EXCEPT ![p] = n]
    /\ Goto(t, "postMessage", "pm_add")
    /\ UNCHANGED <<buffer, tstate, portv, options, message, waitResult, which,
                   result, call, owed, received, via, closeDone>>

\* postMessage, called by a thread whose part is to post.
PostMessage(t) == t \in Senders /\ PostMessageCall(t)

\* (variant: the increment goes to the port's own incoming counter)
IncrementAddIncoming(t) ==
    LET p == PortOf(t)
        c == receiveCounter[p]
        r == ThreadOf(Peer(p))
    IN
    /\ pc[t] = "pm_add"
    /\ buffer' = [buffer EXCEPT ![c] = added(@)]
    /\ IF buffer[c][0] = 0
         THEN Goto(t, "postMessage", "pm_notify")
         ELSE Goto(t, "idle", "idle")
    /\ owed' = IF /\ op[r] = "receiveMessage"
                  /\ pc[r] \in Waiting
                  /\ owed[r] = 0
                  /\ receiveMessageOnPort(Peer(p)) = Msg(sent[p])
                 THEN [owed EXCEPT ![r] = sent[p]]
                 ELSE owed
    /\ UNCHANGED <<queue, tstate, portv, options, message, waitResult, which,
                   result, call, sent, received, via, closeDone>>

\* this.postCounter.increment(): Atomics.add(this.buffer, 0, 1n) === 0n ...
\* With it the payload has arrived: it is queued and counted.  owed notes it
\* when it is the next one of the queue and a receiveMessage call is waiting.
IncrementAdd(t) ==
    LET p == PortOf(t)
        c == postCounter[p]
        r == ThreadOf(Peer(p))
    IN
    /\ pc[t] = "pm_add"
    /\ buffer' = [buffer EXCEPT ![c] = added(@)]
    /\ IF buffer[c][0] = 0
         THEN Goto(t, "postMessage", "pm_notify")
         ELSE Goto(t, "idle", "idle")
    /\ owed' = IF /\ op[r] = "receiveMessage"
                  /\ pc[r] \in Waiting
                  /\ owed[r] = 0
                  /\ receiveMessageOnPort(Peer(p)) = Msg(sent[p])
                 THEN [owed EXCEPT ![r] = sent[p]]
                 ELSE owed
    /\ UNCHANGED <<queue, tstate, portv, options, message, waitResult, which,
                   result, call, sent, received, via, closeDone>>

\* (variant: the notify of increment() reaches nobody)
IncrementNotifyLost(t) ==
    /\ pc[t] = "pm_notify"
    /\ pc' = Woken(t, "idle", {})
    /\ op' = [op EXCEPT ![t] = "idle"]
    /\ UNCHANGED <<shared, portv, options, message, waitResult, which, result,
                   call, owed, sent, received, via, closeDone>>

\* ... Atomics.notify(this.buffer, 0, 1): at most one waiter is woken.
IncrementNotify(t) ==
    LET c == postCounter[PortOf(t)] IN
    /\ pc[t] = "pm_notify"
    /\ \E W \in SUBSET Waiters(c) :
          /\ Cardinality(W) = (IF Waiters(c) = {} THEN 0 ELSE 1)
          /\ pc' = Woken(t, "idle", W)
    /\ op' = [op EXCEPT ![t] = "idle"]
    /\ UNCHANGED <<shared, portv, options, message, waitResult, which, result,
                   call, owed, sent, received, via, closeDone>>

\* ---------------------------------- SyncMessagePort.receiveMessageIfAvailable
\* (variant: the counter is decremented whether or not a message was taken)
ReceiveMessageIfAvailableCounts(t) ==
    LET p == PortOf(t)
        m == receiveMessageOnPort(p)
    IN
    /\ Idle(t)
    /\ t \in Receivers
    /\ queue' = Dequeued(p)
    /\ IF m = None
         THEN /\ FinishAs(t, "receiveMessageIfAvailable", Outcome("undefined"))
              /\ buffer' = [buffer EXCEPT ![receiveCounter[p]] = subtracted(@)]
         ELSE /\ Goto(t, "receiveMessageIfAvailable", "w_value")
              /\ message' = [message EXCEPT ![t] = m]
              /\ buffer' = buffer
              /\ UNCHANGED <<options, waitResult, which, result, call, owed>>
    /\ UNCHANGED <<tstate, portv, sent, received, via, closeDone>>

\* const message = receiveMessageOnPort(this.port); if (message) { wait() ...
ReceiveMessageIfAvailable(t) ==
    LET p == PortOf(t)
        m == receiveMessageOnPort(p)
    IN
    /\ Idle(t)
    /\ t \in Receivers
    /\ queue' = Dequeued(p)
    /\ IF m = None
         THEN FinishAs(t, "receiveMessageIfAvailable", Outcome("undefined"))
         ELSE /\ Goto(t, "receiveMessageIfAvailable", "w_value")
              /\ message' = [message EXCEPT ![t] = m]
              /\ UNCHANGED <<options, waitResult, which, result, call, owed>>
    /\ UNCHANGED <<buffer, tstate, portv, sent, received, via, closeDone>>

\* ... this.receiveCounter.decrement(); } return message;
IfAvailableDecrement(t) ==
    LET p == PortOf(t)
        c == receiveCounter[p]
    IN
    /\ pc[t] = "if_decrement"
    /\ buffer' = [buffer EXCEPT ![c] = subtracted(@)]
    /\ Deliver(p, message[t].v, "receiveMessageIfAvailable")
    /\ Finish(t, Returned(message[t].v))
    /\ UNCHANGED <<queue, tstate, portv, sent, closeDone>>

\* ----------------------------------------------- SyncMessagePort.receiveMessage
\* The posts of q whose increment() has been done.
Completed(q) ==
    sent[q] - (IF pc[ThreadOf(q)] = "pm_add" THEN 1 ELSE 0)

Snapshot(p) ==
    [sent |-> sent[Peer(p)],
     pending |-> queue[p] # <<>> /\ Head(queue[p]).v <= Completed(Peer(p)),
     empty |-> queue[p] = <<>>,
     head |-> receiveMessageOnPort(p).v,
     channel |-> IF closeDone THEN "closed"
                 ELSE IF \A q \in Ports : tstate[q] = "open" THEN "open"
                 ELSE "closing"]

\* receiveMessage(options) is called.  options[t] holds options.timeout from
\* here on; whether options has the keys timeoutValue and closedValue is drawn
\* and recorded where the code tests for them.
ReceiveMessageCall(t, timeout) ==
    /\ Idle(t)
    /\ Goto(t, "receiveMessage", "w_value")
    /\ options' = [options EXCEPT ![t].timeout = timeout]
    /\ call' = [call EXCEPT ![t] = Snapshot(PortOf(t))]
    /\ UNCHANGED <<shared, portv, message, waitResult, which, result, owed,
                   sent, received, via, closeDone>>

\* receiveMessage, called by a thread whose part is to consume.
ReceiveMessage(t, timeout) == t \in Receivers /\ ReceiveMessageCall(t, timeout)

\* (variant: a timed-out wait is reported as closure)
timedOutAsClosed(o) ==
    IF o.closedValue THEN Outcome("closedValue") ELSE Outcome("ClosedError")

\* if ('timeoutValue' in options!) return options.timeoutValue;
\* throw new TimeoutException(...)
timedOut(o) ==
    IF o.timeoutValue THEN Outcome("timeoutValue") ELSE Outcome("TimeoutException")

\* if (options && 'closedValue' in options) return options.closedValue;
\* throw new Error("The SyncMessagePort's channel is closed.")
channelClosed(o) ==
    IF o.closedValue THEN Outcome("closedValue") ELSE Outcome("ClosedError")

\* The options objects whose timeout is tm.
OptionsWith(tm) == {o \in Options : o.timeout = tm}

\* receiveMessage returns r (or throws it), having read the keys of options o.
FinishWith(t, o, r) ==
    /\ Goto(t, op[t], "return")
    /\ result' = [result EXCEPT ![t] = r]
    /\ options' = [options EXCEPT ![t] = o]
    /\ UNCHANGED <<message, waitResult, which, call, owed>>

\* (variant: the transport is read before the result of wait() is looked at)
ReceiveAfterWaitTakes(t) ==
    LET p == PortOf(t)
        m == receiveMessageOnPort(p)
    IN
    /\ pc[t] = "rm_receive"
    /\ queue' = Dequeued(p)
    /\ IF ~waitResult[t]
         THEN \E o \in OptionsWith(options[t].timeout) :
                 FinishWith(t, o, timedOut(o))
         ELSE IF m = None
                THEN \E o \in OptionsWith(options[t].timeout) :
                        FinishWith(t, o, channelClosed(o))
                ELSE /\ Goto(t, "receiveMessage", "rm_decrement")
                     /\ message' = [message EXCEPT ![t] = m]
                     /\ UNCHANGED <<options, waitResult, which, result,
                                    call, owed>>
    /\ UNCHANGED <<buffer, tstate, portv, sent, received, via, closeDone>>

\* if (!wait(timeout)) {...}  const message = receiveMessageOnPort(this.port);
ReceiveAfterWait(t) ==
    LET p == PortOf(t)
        m == receiveMessageOnPort(p)
    IN
    /\ pc[t] = "rm_receive"
    /\ IF ~waitResult[t]
         THEN /\ \E o \in OptionsWith(options[t].timeout) :
                    FinishWith(t, o, timedOut(o))
              /\ UNCHANGED queue
         ELSE /\ queue' = Dequeued(p)
              /\ IF m = None
                   THEN \E o \in OptionsWith(options[t].timeout) :
                           FinishWith(t, o, channelClosed(o))
                   ELSE /\ Goto(t, "receiveMessage", "rm_decrement")
                        /\ message' = [message EXCEPT ![t] = m]
                        /\ UNCHANGED <<options, waitResult, which, result,
                                       call, owed>>
    /\ UNCHANGED <<buffer, tstate, portv, sent, received, via, closeDone>>

\* (variant: the call counts the payload off the port's outgoing counter)
ReceiveDecrementOutgoing(t) ==
    LET p == PortOf(t)
        c == postCounter[p]
    IN
    /\ pc[t] = "rm_decrement"
    /\ buffer' = [buffer EXCEPT ![c] = subtracted(@)]
    /\ Deliver(p, message[t].v, "receiveMessage")
    /\ Finish(t, Returned(message[t].v))
    /\ UNCHANGED <<queue, tstate, portv, sent, closeDone>>

\* this.receiveCounter.decrement(); return message.message;
ReceiveDecrement(t) ==
    LET p == PortOf(t)
        c == receiveCounter[p]
    IN
    /\ pc[t] = "rm_decrement"
    /\ buffer' = [buffer EXCEPT ![c] = subtracted(@)]
    /\ Deliver(p, message[t].v, "receiveMessage")
    /\ Finish(t, Returned(message[t].v))
    /\ UNCHANGED <<queue, tstate, portv, sent, closeDone>>


\* ------------------------------------------------------- the 'message' event
\* (variant: the event leaves the payload in the queue)
MessageEventKeeps(t) ==
    LET p == PortOf(t)
        m == receiveMessageOnPort(p)
    IN
    /\ Idle(t)
    /\ tstate[p] = "open"
    /\ shim[p] + listeners[p] > 0
    /\ m # None
    /\ queue' = queue
    /\ IF shim[p] > 0
         THEN /\ Goto(t, "messageHandler", "w_value")
              /\ message' = [message EXCEPT ![t] = m]
              /\ UNCHANGED <<received, via>>
         ELSE /\ Deliver(p, m.v, "listener")
              /\ UNCHANGED <<op, pc, message>>
    /\ UNCHANGED <<buffer, tstate, portv, options, waitResult, which, result,
                   call, owed, sent, closeDone>>

\* The event loop of p's thread takes the next queued payload and emits
\* 'message' on the inner port: messageHandler runs first, then the listeners.
MessageEvent(t) ==
    LET p == PortOf(t)
        m == receiveMessageOnPort(p)
    IN
    /\ Idle(t)
    /\ tstate[p] = "open"
    /\ shim[p] + listeners[p] > 0
    /\ m # None
    /\ queue' = Dequeued(p)
    /\ IF shim[p] > 0
         THEN /\ Goto(t, "messageHandler", "w_value")
              /\ message' = [message EXCEPT ![t] = m]
              /\ UNCHANGED <<received, via>>
         ELSE /\ Deliver(p, m.v, "listener")
              /\ UNCHANGED <<op, pc, message>>
    /\ UNCHANGED <<buffer, tstate, portv, options, waitResult, which, result,
                   call, owed, sent, closeDone>>

\* messageHandler: this.receiveCounter.wait(); this.receiveCounter.decrement();
\* then the listeners installed with on('message') are called.
MessageHandlerDecrement(t) ==
    LET p == PortOf(t)
        c == receiveCounter[p]
    IN
    /\ pc[t] = "mh_decrement"
    /\ buffer' = [buffer EXCEPT ![c] = subtracted(@)]
    /\ IF listeners[p] > 0
         THEN Deliver(p, message[t].v, "listener")
         ELSE UNCHANGED <<received, via>>
    /\ Goto(t, "idle", "idle")
    /\ message' = [message EXCEPT ![t] = None]
    /\ UNCHANGED <<queue, tstate, portv, options, waitResult, which, result,
                   call, owed, sent, closeDone>>

\* (variant: messageHandler is attached with every listener)
OnMessageAttachesEach(t) ==
    LET p == PortOf(t) IN
    /\ Idle(t)
    /\ t \in Receivers
    /\ listeners[p] < MaxListeners
    /\ shim' = [shim EXCEPT ![p] = @ + 1]
    /\ listeners' = [listeners EXCEPT ![p] = @ + 1]
    /\ UNCHANGED <<shared, ctor, postCounter, receiveCounter, locals, sent,
                   received, via, closeDone>>

\* this.on('newListener', ...) for event === 'message'
OnMessage(t) ==
    LET p == PortOf(t) IN
    /\ Idle(t)
    /\ t \in Receivers
    /\ listeners[p] < MaxListeners
    /\ shim' = [shim EXCEPT ![p] = IF listeners[p] = 0 THEN @ + 1 ELSE @]
    /\ listeners' = [listeners EXCEPT ![p] = @ + 1]
    /\ UNCHANGED <<shared, ctor, postCounter, receiveCounter, locals, sent,
                   received, via, closeDone>>

\* this.on('removeListener', ...) for event === 'message'
OffMessage(t) ==
    LET p == PortOf(t) IN
    /\ Idle(t)
    /\ listeners[p] > 0
    /\ listeners' = [listeners EXCEPT ![p] = @ - 1]
    /\ shim' = [shim EXCEPT ![p] = IF listeners[p] = 1 /\ @ > 0 THEN @ - 1 ELSE @]
    /\ UNCHANGED <<shared, ctor, postCounter, receiveCounter, locals, sent,
                   received, via, closeDone>>

\* ------------------------------------------------------ SyncMessagePort.close
\* The counter the close() in progress is closing.
ClosingCounter(t) ==
    IF which[t] = "post" THEN postCounter[PortOf(t)] ELSE receiveCounter[PortOf(t)]

\* this.port.close();
Close(t) ==
    LET p == PortOf(t) IN
    /\ Idle(t)
    /\ tstate' = [tstate EXCEPT ![p] = IF @ = "open" THEN "closing" ELSE @]
    /\ Goto(t, "close", "cl_closed")
    /\ UNCHANGED <<buffer, queue, portv, options, message, waitResult, which,
                   result, call, owed, sent, received, via, closeDone>>

\* AtomicCounter.close() is left: on to the receive counter, or close() returns.
CounterCloseReturns(t, W) ==
    /\ IF which[t] = "post"
         THEN /\ pc' = Woken(t, "cl_closed", W)
              /\ op' = op
              /\ which' = [which EXCEPT ![t] = "receive"]
              /\ closeDone' = closeDone
         ELSE /\ pc' = Woken(t, "idle", W)
              /\ op' = [op EXCEPT ![t] = "idle"]
              /\ which' = [which EXCEPT ![t] = "post"]
              /\ closeDone' = TRUE
    /\ UNCHANGED <<queue, tstate, portv, options, message, waitResult, result,
                   call, owed, sent, received, via>>

\* (variant: the counter is left as it is)
CloseClosedWordSkipped(t) ==
    /\ pc[t] = "cl_closed"
    /\ buffer' = buffer
    /\ CounterCloseReturns(t, {})

\* (variant: close() goes on to the value whether or not it set the flag)
CloseClosedWordGoesOn(t) ==
    LET c == ClosingCounter(t) IN
    /\ pc[t] = "cl_closed"
    /\ buffer' = [buffer EXCEPT ![c][1] = 1]
    /\ pc' = [pc EXCEPT ![t] = "cl_value"]
    /\ UNCHANGED <<queue, tstate, portv, op, options, message, waitResult,
                   which, result, call, owed, sent, received, via, closeDone>>

\* Atomics.compareExchange(this.buffer, 1, 0n, 1n) === 0n && ...
CloseClosedWord(t) ==
    LET c == ClosingCounter(t) IN
    /\ pc[t] = "cl_closed"
    /\ IF buffer[c][1] = 0
         THEN /\ buffer' = [buffer EXCEPT ![c][1] = 1]
              /\ pc' = [pc EXCEPT ![t] = "cl_value"]
              /\ UNCHANGED <<queue, tstate, portv, op, options, message,
                             waitResult, which, result, call, owed, sent,
                             received, via, closeDone>>
         ELSE /\ buffer' = buffer
              /\ CounterCloseReturns(t, {})

\* (variant: word 0 is stored to, whatever it holds)
CloseValueWordStores(t) ==
    LET c == ClosingCounter(t) IN
    /\ pc[t] = "cl_value"
    /\ buffer' = [buffer EXCEPT ![c][0] = 1]
    /\ pc' = [pc EXCEPT ![t] = "cl_notify"]
    /\ UNCHANGED <<queue, tstate, portv, op, options, message, waitResult,
                   which, result, call, owed, sent, received, via, closeDone>>

\* ... && Atomics.compareExchange(this.buffer, 0, 0n, 1n) === 0n
CloseValueWord(t) ==
    LET c == ClosingCounter(t) IN
    /\ pc[t] = "cl_value"
    /\ IF buffer[c][0] = 0
         THEN /\ buffer' = [buffer EXCEPT ![c][0] = 1]
              /\ pc' = [pc EXCEPT ![t] = "cl_notify"]
              /\ UNCHANGED <<queue, tstate, portv, op, options, message,
                             waitResult, which, result, call, owed, sent,
                             received, via, closeDone>>
         ELSE /\ buffer' = buffer
              /\ CounterCloseReturns(t, {})

\* (variant: close() notifies nobody)
CloseNotifyLost(t) ==
    /\ pc[t] = "cl_notify"
    /\ buffer' = buffer
    /\ CounterCloseReturns(t, {})

\* Atomics.notify(this.buffer, 0): every waiter is woken.
CloseNotify(t) ==
    /\ pc[t] = "cl_notify"
    /\ buffer' = buffer
    /\ CounterCloseReturns(t, Waiters(ClosingCounter(t)))

\* ------------------------------------------------- new SyncMessagePort(port)
Truthy(b) == b.kind \notin {"none", "falsy"}

ByteLength16(b) == b.kind \in {"sab16", "ab16"}

\* The shared counter a queued item is the memory of (0: not the memory of one).
CounterOf(b) == IF b.kind = "sab16" THEN b.v ELSE 0

\* const buffer1 = receiveMessageOnPort(this.port)?.message;
ConstructorFirst(t) ==
    LET p == PortOf(t) IN
    /\ pc[t] = "idle"
    /\ ctor[p] # "ok"
    /\ message' = [message EXCEPT ![t] = receiveMessageOnPort(p)]
    /\ queue' = Dequeued(p)
    /\ Goto(t, "constructor", "ct_second")
    /\ UNCHANGED <<buffer, tstate, portv, options, waitResult, which, result,
                   call, owed, sent, received, via, closeDone>>

\* What the constructor does with the two items it took.
Constructed(b1, b2) ==
    IF ~Truthy(b1) \/ ~Truthy(b2) THEN "notFromCreateChannel"
    ELSE IF ~ByteLength16(b1) \/ ~ByteLength16(b2) THEN "byteLength"
    ELSE "ok"

\* const buffer2 = receiveMessageOnPort(this.port)?.message;
\* if (!buffer1 || !buffer2) throw ...; new AtomicCounter(buffer1), (buffer2)
ConstructorSecond(t) ==
    LET p == PortOf(t)
        b1 == message[t]
        b2 == receiveMessageOnPort(p)
        made == Constructed(b1, b2)
    IN
    /\ pc[t] = "ct_second"
    /\ queue' = Dequeued(p)
    /\ ctor' = [ctor EXCEPT ![p] = made]
    /\ postCounter' = [postCounter EXCEPT ![p] = IF made = "ok" THEN CounterOf(b1) ELSE @]
    /\ receiveCounter' = [receiveCounter EXCEPT ![p] = IF made = "ok" THEN CounterOf(b2) ELSE @]
    /\ Goto(t, "idle", "idle")
    /\ message' = [message EXCEPT ![t] = None]
    /\ UNCHANGED <<buffer, tstate, listeners, shim, options, waitResult, which,
                   result, call, owed, sent, received, via, closeDone>>

\* ------------------------------------------------------------ specification
Next ==
    \/ \E t \in Threads : ConstructorFirst(t)
    \/ \E t \in Threads : ConstructorSecond(t)
    \/ \E t \in Threads : PostMessage(t)
    \/ \E t \in Threads : IncrementAdd(t)
    \/ \E t \in Threads : IncrementNotify(t)
    \/ \E t \in Threads : ReceiveMessageIfAvailable(t)
    \/ \E t \in Threads : IfAvailableDecrement(t)
    \/ \E t \in Threads, tm \in Timeouts : ReceiveMessage(t, tm)
    \/ \E t \in Threads : ReceiveAfterWait(t)
    \/ \E t \in Threads : ReceiveDecrement(t)
    \/ \E t \in Threads : Returns(t)
    \/ \E t \in Threads : WaitLoadValue(t)
    \/ \E t \in Threads : WaitLoadClosed(t)
    \/ \E t \in Threads : AtomicsWait(t)
    \/ \E t \in Threads : AtomicsWaitTimesOut(t)
    \/ \E t \in Threads : MessageEvent(t)
    \/ \E t \in Threads : MessageHandlerDecrement(t)
    \/ \E t \in Threads : OnMessage(t)
    \/ \E t \in Threads : OffMessage(t)
    \/ \E t \in Threads : Close(t)
    \/ \E t \in Threads : CloseClosedWord(t)
    \/ \E t \in Threads : CloseValueWord(t)
    \/ \E t \in Threads : CloseNotify(t)
    \/ \E t \in Threads : TransportClosed(t)

Spec == Init /\ [][Next]_vars

\* A thread that is inside a call keeps running: each thread is an operating
\* system thread, and every statement but Atomics.wait runs to completion.
\* Beginning a call, a 'message' event and the end of a timeout are not forced.
Continue(t) ==
    \/ ConstructorSecond(t)
    \/ IncrementAdd(t)
    \/ IncrementNotify(t)
    \/ IfAvailableDecrement(t)
    \/ ReceiveAfterWait(t)
    \/ ReceiveDecrement(t)
    \/ Returns(t)
    \/ WaitLoadValue(t)
    \/ WaitLoadClosed(t)
    \/ AtomicsWait(t)
    \/ MessageHandlerDecrement(t)
    \/ CloseClosedWord(t)
    \/ CloseValueWord(t)
    \/ CloseNotify(t)

Fairness == \A t \in Threads : WF_vars(Continue(t))

FairSpec == Spec /\ Fairness

\* The blocking calls alone: the worker posts and closes, the main thread
\* calls receiveMessage (with and without a timeout) and closes.
NextBlocking ==
    \/ \E t \in Threads : ConstructorFirst(t)
    \/ \E t \in Threads : ConstructorSecond(t)
    \/ \E t \in Threads : PostMessage(t)
    \/ \E t \in Threads : IncrementAdd(t)
    \/ \E t \in Threads : IncrementNotify(t)
    \/ \E t \in Threads, tm \in Timeouts : ReceiveMessage(t, tm)
    \/ \E t \in Threads : ReceiveAfterWait(t)
    \/ \E t \in Threads : ReceiveDecrement(t)
    \/ \E t \in Threads : Returns(t)
    \/ \E t \in Threads : WaitLoadValue(t)
    \/ \E t \in Threads : WaitLoadClosed(t)
    \/ \E t \in Threads : AtomicsWait(t)
    \/ \E t \in Threads : AtomicsWaitTimesOut(t)
    \/ \E t \in Threads : Close(t)
    \/ \E t \in Threads : CloseClosedWord(t)
    \/ \E t \in Threads : CloseValueWord(t)
    \/ \E t \in Threads : CloseNotify(t)
    \/ \E t \in Threads : TransportClosed(t)

BlockingSpec == Init /\ [][NextBlocking]_vars /\ Fairness

\* The script of the tests 'multiple times and closes': the worker posts some
\* payloads and closes its port; the main thread calls receiveMessage() again
\* and again, while the worker runs or after it.
NextSendClose ==
    \/ \E t \in Threads : ConstructorFirst(t)
    \/ \E t \in Threads : ConstructorSecond(t)
    \/ \E t \in Threads : tstate[PortOf(t)] = "open" /\ PostMessage(t)
    \/ \E t \in Threads : IncrementAdd(t)
    \/ \E t \in Threads : IncrementNotify(t)
    \/ \E t \in Threads : ReceiveMessage(t, "none")
    \/ \E t \in Threads : ReceiveAfterWait(t)
    \/ \E t \in Threads : ReceiveDecrement(t)
    \/ \E t \in Threads : Returns(t)
    \/ \E t \in Threads : WaitLoadValue(t)
    \/ \E t \in Threads : WaitLoadClosed(t)
    \/ \E t \in Threads : AtomicsWait(t)
    \/ \E t \in Senders : tstate[PortOf(t)] = "open" /\ Close(t)
    \/ \E t \in Threads : CloseClosedWord(t)
    \/ \E t \in Threads : CloseValueWord(t)
    \/ \E t \in Threads : CloseNotify(t)
    \/ \E t \in Threads : TransportClosed(t)

SendCloseSpec == Init /\ [][NextSendClose]_vars /\ Fairness

\* new SyncMessagePort(port) on endpoints in any state: each endpoint has up to
\* MaxQueued messages queued, counter buffers or not.
Items == {Sab(c) : c \in Counters} \cup {Ab16, Falsy, Other}

Queues == UNION {[1..n -> Items] : n \in 0..MaxQueued}

InitAnyEndpoint == queue \in [Ports -> Queues] /\ Fresh

NextConstruct ==
    \/ \E t \in Threads : ConstructorFirst(t)
    \/ \E t \in Threads : ConstructorSecond(t)

ConstructSpec == InitAnyEndpoint /\ [][NextConstruct]_vars /\ Fairness

\* The script of the test 'supports two-way blocking communications': the main
\* thread posts, then both threads answer each payload they receive with a
\* post, MaxSend posts each; each closes its port when it is through.
Lead(t) == IF t = "main" THEN 1 ELSE 0

\* Thread t is at a postMessage of its script.
PostsNext(t) == sent[PortOf(t)] + 1 = Len(received[PortOf(t)]) + Lead(t)

\* Thread t is at a receiveMessage of its script.
ReceivesNext(t) ==
    /\ sent[PortOf(t)] = Len(received[PortOf(t)]) + Lead(t)
    /\ Len(received[PortOf(t)]) < MaxSend

\* Thread t is through with its script, all but close().
ClosesNext(t) ==
    /\ sent[PortOf(t)] = MaxSend
    /\ Len(received[PortOf(t)]) = MaxSend
    /\ tstate[PortOf(t)] = "open"

Script(t) ==
    \/ pc[t] = "idle" /\ ctor[PortOf(t)] # "ok" /\ ConstructorFirst(t)
    \/ PostsNext(t) /\ PostMessageCall(t)
    \/ ReceivesNext(t) /\ ReceiveMessageCall(t, "none")
    \/ ClosesNext(t) /\ Close(t)

NextPingPong ==
    \/ \E t \in Threads : ConstructorFirst(t)
    \/ \E t \in Threads : ConstructorSecond(t)
    \/ \E t \in Threads : PostsNext(t) /\ PostMessageCall(t)
    \/ \E t \in Threads : IncrementAdd(t)
    \/ \E t \in Threads : IncrementNotify(t)
    \/ \E t \in Threads : ReceivesNext(t) /\ ReceiveMessageCall(t, "none")
    \/ \E t \in Threads : ReceiveAfterWait(t)
    \/ \E t \in Threads : ReceiveDecrement(t)
    \/ \E t \in Threads : Returns(t)
    \/ \E t \in Threads : WaitLoadValue(t)
    \/ \E t \in Threads : WaitLoadClosed(t)
    \/ \E t \in Threads : AtomicsWait(t)
    \/ \E t \in Threads : ClosesNext(t) /\ Close(t)
    \/ \E t \in Threads : CloseClosedWord(t)
    \/ \E t \in Threads : CloseValueWord(t)
    \/ \E t \in Threads : CloseNotify(t)
    \/ \E t \in Threads : TransportClosed(t)

\* Each thread runs its script: it goes on inside a call and on to the next.
PingPongSpec ==
    /\ Init /\ [][NextPingPong]_vars
    /\ \A t \in Threads : WF_vars(Continue(t)) /\ WF_vars(Script(t))

TypeOK ==
    /\ \A c \in Counters : buffer[c][0] \in Int /\ buffer[c][1] \in {0, 1}
    /\ \A p \in Ports : tstate[p] \in {"open", "closing", "closed"}
    /\ \A t \in Threads : options[t] \in Options

\* ------------------------------------------------------------------ claims
closeBegun == \E p \in Ports : tstate[p] # "open"

\* 1 .. n as a sequence
UpTo(n) == [i \in 1..n |-> i]

\* The payloads of a queue, in order.
Payloads(q) == [i \in 1..Len(q) |-> q[i].v]

\* The payload thread t has taken from the transport and not yet handed over.
InHand(t) ==
    IF op[t] \in {"receiveMessage", "receiveMessageIfAvailable", "messageHandler"}
       /\ message[t].kind = "msg"
       /\ pc[t] # "return"
      THEN <<message[t].v>> ELSE <<>>

\* What port p was handed, holds and has queued, oldest first.
Accounted(p) == received[p] \o InHand(ThreadOf(p)) \o Payloads(queue[p])

\* C1: the payloads handed to the consumers of a port (receiveMessage,
\* receiveMessageIfAvailable, 'message' listeners), followed by the one in hand
\* and those still queued, are the payloads 1, 2, ... of its peer in the order
\* sent: none twice, none skipped, none out of order; and while no port has
\* been closed none is missing.
C1_ExactlyOnceInOrder ==
    \A p \in {PortOf(t) : t \in Receivers} :
        /\ ctor[p] = "ok" =>
              /\ Len(Accounted(p)) <= sent[Peer(p)]
              /\ Accounted(p) = UpTo(Len(Accounted(p)))
              /\ ~closeBegun => Len(Accounted(p)) = sent[Peer(p)]
        /\ via[p] \subseteq {"receiveMessage", "receiveMessageIfAvailable", "listener"}

\* Three payloads were handed over, by the three consumption paths.
C1_Witness ==
    /\ received["port1"] = <<1, 2, 3>>
    /\ via["port1"] = {"receiveMessage", "receiveMessageIfAvailable", "listener"}

\* A receiveMessage call without timeout that began on an open channel with an
\* empty transport queue is about to hand its result to the caller.
BlockedCallReturns(t) ==
    /\ pc[t] = "return"
    /\ op[t] = "receiveMessage"
    /\ options[t].timeout = "none"
    /\ call[t].empty
    /\ call[t].channel = "open"

\* C2: a receiveMessage call with no timeout, begun on an open channel with
\* nothing pending, returns only after its peer has called postMessage again
\* or a port has been closed, and while no port is closed what it returns is
\* the payload of the peer's first post since the call began; and once that
\* post has been made while the call waits, the call eventually returns
\* exactly its payload.
C2_BlocksUntilPost ==
    /\ [](\A t \in Receivers :
            BlockedCallReturns(t) =>
                /\ sent[Peer(PortOf(t))] > call[t].sent \/ closeBegun
                /\ ~closeBegun => result[t] = Returned(call[t].sent + 1))
    /\ \A t \in Receivers : \A n \in 1..MaxSend :
            (/\ op[t] = "receiveMessage" /\ pc[t] \in Waiting
             /\ options[t].timeout = "none"
             /\ call[t].empty /\ call[t].channel = "open"
             /\ receiveMessageOnPort(PortOf(t)) = Msg(n))
                ~> (pc[t] = "return" /\ result[t] = Returned(n))

\* The call began with nothing pending, waited, and returns the payload that
\* was posted while it waited.
C2_Witness ==
    /\ BlockedCallReturns("main")
    /\ call["main"].sent = 1
    /\ sent["port2"] = 2
    /\ result["main"] = Returned(2)
    /\ ~closeBegun

\* C3: the worker posts N payloads and closes, the main thread calls
\* receiveMessage().  Every call returns the next payload in the order sent,
\* or reports closure, and closure is reported only when the worker has closed
\* and all N payloads have been returned; no counter goes below 0, and until
\* the worker closes the counter is the number of completed posts not yet
\* received; and a call in progress when close() has returned returns.
C3_SendThenClose ==
    /\ [](\A t \in Receivers :
            LET p == PortOf(t)
                q == Peer(p) IN
            /\ pc[t] = "return" /\ op[t] = "receiveMessage" =>
                  \/ /\ result[t] = Returned(Len(received[p]))
                     /\ received[p] = UpTo(Len(received[p]))
                     /\ Len(received[p]) \in 1..sent[q]
                  \/ /\ result[t] = channelClosed(options[t])
                     /\ tstate[q] # "open"
                     /\ received[p] = UpTo(sent[q])
            /\ \A c \in Counters : buffer[c][0] >= 0
            /\ ctor[p] = "ok" /\ tstate[q] = "open" =>
                  buffer[receiveCounter[p]][0] = Completed(q) - Len(received[p]))
    /\ \A t \in Receivers :
            (closeDone /\ op[t] = "receiveMessage") ~> (pc[t] = "return")

\* Three payloads were returned and the fourth call reports closure.
C3_Witness ==
    /\ pc["main"] = "return"
    /\ result["main"] = Outcome("ClosedError")
    /\ received["port1"] = <<1, 2, 3>>
    /\ sent["port2"] = 3
    /\ closeDone

\* A receiveMessage call that began after a close() call had returned on one
\* of the two ports is about to hand its result to the caller.
CallAfterCloseReturns(t) ==
    /\ pc[t] = "return"
    /\ op[t] = "receiveMessage"
    /\ call[t].channel = "closed"

\* C4 as stated: a receiveMessage call made after a close() call has returned
\* on either port reports closure, as closedValue if that key is given and as
\* the channel-closed error if not.
C4_ClosureAfterClose ==
    \A t \in Receivers :
        CallAfterCloseReturns(t) => result[t] = channelClosed(options[t])

\* C4, amended: a receiveMessage call made after a close() call has returned
\* on either port never blocks in Atomics.wait and returns either the next
\* payload still queued for its port or closure (closedValue if that key is
\* given, the channel-closed error if not), never the timeout outcome; and a
\* call in progress when a close() has returned, returns.
C4_AfterClose ==
    /\ [](\A t \in Receivers :
            LET p == PortOf(t) IN
            op[t] = "receiveMessage" /\ call[t].channel = "closed" =>
                /\ pc[t] # "w_blocked"
                /\ pc[t] = "rm_receive" => waitResult[t]
                /\ pc[t] = "return" =>
                      \/ result[t] = channelClosed(options[t])
                      \/ /\ result[t] = Returned(Len(received[p]))
                         /\ ~call[t].empty \/ tstate[p] # "open")
    /\ \A t \in Receivers :
            (closeDone /\ op[t] = "receiveMessage" /\ pc[t] \in Waiting)
                ~> (pc[t] = "return")

\* A call made after close() returned reports closure through closedValue,
\* with a timeout configured.
C4_Witness ==
    /\ CallAfterCloseReturns("main")
    /\ options["main"].timeout = "zero"
    /\ options["main"].timeoutValue
    /\ result["main"] = Outcome("closedValue")

\* C5: a receiveMessage call that is in wait() (loading the two words, about
\* to block, or blocked in Atomics.wait) while a close() call is in progress
\* returns, however the steps of close() fall between the steps of wait().
C5_CloseWakes ==
    \A t \in Threads :
        (/\ op[t] = "receiveMessage" /\ pc[t] \in Waiting
         /\ \E u \in Threads : op[u] = "close")
            ~> (pc[t] = "return")

\* The main thread is blocked in Atomics.wait without a timeout; the worker's
\* close() has stored to both words of the counter and is about to notify.
C5_Witness ==
    /\ op["main"] = "receiveMessage"
    /\ pc["main"] = "w_blocked"
    /\ options["main"].timeout = "none"
    /\ op["worker"] = "close"
    /\ pc["worker"] = "cl_notify"
    /\ ClosingCounter("worker") = receiveCounter["port1"]

\* A receiveMessage call on a port with a 'message' listener, during which a
\* payload arrived for the port, is about to hand its result to the caller.
CallWithListenerReturns(t) ==
    /\ pc[t] = "return"
    /\ op[t] = "receiveMessage"
    /\ listeners[PortOf(t)] > 0
    /\ owed[t] # 0

Closure == {Outcome("closedValue"), Outcome("ClosedError")}

\* C7: when receiveMessage reports closure, a close() has been called on one
\* of the two ports and has set the closed word of the counter the call waits
\* on, and at the moment the call found the transport queue empty nothing was
\* queued for its port or held by it; so on a channel that no port has closed
\* receiveMessage never reports closure.
C7_ClosureIsReal ==
    /\ [](\A t \in Receivers :
            pc[t] = "return" /\ op[t] = "receiveMessage" /\ result[t] \in Closure =>
                /\ closeBegun
                /\ buffer[receiveCounter[PortOf(t)]][1] = 1)
    /\ [][\A t \in Receivers :
            pc[t] = "rm_receive" /\ pc'[t] = "return" /\ result'[t] \in Closure =>
                /\ waitResult[t]
                /\ queue[PortOf(t)] = <<>>
                /\ queue'[PortOf(t)] = <<>>
                /\ closeBegun]_vars

\* After payloads went to receiveMessageIfAvailable and to a listener, the
\* worker closed and a receiveMessage call on the open port reports closure.
C7_Witness ==
    /\ pc["main"] = "return"
    /\ op["main"] = "receiveMessage"
    /\ result["main"] \in Closure
    /\ tstate["port1"] = "open"
    /\ {"receiveMessageIfAvailable", "listener"} \subseteq via["port1"]

\* A receiveMessage({timeout: 0}) call is about to hand over its result.
ZeroTimeoutReturns(t) ==
    /\ pc[t] = "return"
    /\ op[t] = "receiveMessage"
    /\ options[t].timeout = "zero"

\* C8: a receiveMessage call with timeout 0 never blocks in Atomics.wait.  If
\* it began with an empty transport queue on an open channel, and since then
\* no port was closed and the peer posted nothing, it gives the timeout
\* outcome: timeoutValue if that key is given, TimeoutException if not.  If it
\* began with a completely posted payload at the head of the queue, it returns
\* that payload.
C8_ZeroTimeout ==
    \A t \in Receivers :
        /\ op[t] = "receiveMessage" /\ options[t].timeout = "zero" =>
              pc[t] # "w_blocked"
        /\ ZeroTimeoutReturns(t) =>
              /\ (/\ call[t].empty /\ call[t].channel = "open" /\ ~closeBegun
                   /\ sent[Peer(PortOf(t))] = call[t].sent)
                     => result[t] = timedOut(options[t])
              /\ call[t].pending => result[t] = Returned(call[t].head)

\* Nothing was pending and nothing happened: the call returns timeoutValue.
C8_Witness ==
    /\ ZeroTimeoutReturns("main")
    /\ call["main"].empty
    /\ ~closeBegun
    /\ sent["port2"] = call["main"].sent
    /\ options["main"].timeoutValue
    /\ result["main"] = Outcome("timeoutValue")

\* C9: a receiveMessage call gives the timeout outcome exactly when its wait
\* resolved as timed out, whatever was closed after that; once a close() has
\* returned, no thread is blocked in Atomics.wait and a wait that resolves
\* does not resolve as timed out; and a call whose wait did not time out and
\* that finds the transport queue empty reports closure.
C9_Precedence ==
    /\ [](\A t \in Receivers :
            op[t] = "receiveMessage" =>
                /\ closeDone => pc[t] # "w_blocked"
                /\ pc[t] = "return" =>
                      /\ ~waitResult[t] <=> result[t] = timedOut(options[t])
                      /\ waitResult[t] => result[t] \in Closure \/ result[t].kind = "message")
    /\ [][\A t \in Receivers :
            /\ (/\ op[t] = "receiveMessage" /\ closeDone
                 /\ pc[t] \in Waiting /\ pc'[t] = "rm_receive") => waitResult'[t]
            /\ (/\ pc[t] = "rm_receive" /\ pc'[t] = "return" /\ waitResult[t])
                   => result'[t] = channelClosed(options'[t])]_vars

\* A call with a timeout and timeoutValue began on an open channel; the worker
\* closed before the timeout elapsed, and the call throws the closed error.
C9_Witness ==
    /\ pc["main"] = "return"
    /\ op["main"] = "receiveMessage"
    /\ options["main"].timeout = "finite"
    /\ options["main"].timeoutValue
    /\ call["main"].channel = "open"
    /\ closeDone
    /\ result["main"] = Outcome("ClosedError")

\* C10: the constructor succeeds only on an endpoint that had two counter
\* handles queued: every SyncMessagePort that exists has a shared counter to
\* post on and a shared counter to receive on.
C10_NeedsBothCounters ==
    \A p \in Ports :
        ctor[p] = "ok" =>
            /\ postCounter[p] \in Counters
            /\ receiveCounter[p] \in Counters

\* C11: a constructed port posts on the first buffer createChannel queued for
\* it and receives on the second; so once both ports are constructed each
\* port's post counter is its peer's receive counter, and the two counters are
\* distinct.  What is left in its queue are the payloads its peer posted, also
\* those posted before it was constructed: none was taken for a handle, and
\* while no port is closed all of them are received, in hand or queued.
C11_CrossedCounters ==
    \A p \in Ports :
        ctor[p] = "ok" =>
            /\ postCounter[p] \in Counters
            /\ receiveCounter[p] \in Counters
            /\ postCounter[p] # receiveCounter[p]
            /\ ctor[Peer(p)] = "ok" =>
                  /\ postCounter[p] = receiveCounter[Peer(p)]
                  /\ receiveCounter[p] = postCounter[Peer(p)]
            /\ \A i \in 1..Len(queue[p]) : queue[p][i].kind = "msg"
            /\ ~closeBegun => Accounted(p) = UpTo(sent[Peer(p)])

\* The worker posted two payloads before the main thread's port existed; the
\* main thread's constructor has taken the first handle and finds the second
\* at the head of the queue, before the two payloads.
C11_Witness ==
    /\ ctor["port2"] = "ok"
    /\ pc["main"] = "ct_second"
    /\ message["main"] = Sab(1)
    /\ queue["port1"] = <<Sab(2), Msg(1), Msg(2)>>

\* C12: a receiveMessageIfAvailable call that finds nothing queued for its
\* port returns undefined at once and changes neither a counter nor a
\* transport queue, nor anything else of the port; so too when a port has been
\* closed, and it never gives an error.
C12_NothingAvailable ==
    /\ [](\A t \in Threads :
            op[t] = "receiveMessageIfAvailable" /\ pc[t] = "return" =>
                result[t] = Outcome("undefined") \/ result[t].kind = "message")
    /\ [][\A t \in Threads :
            (/\ pc[t] = "idle" /\ op'[t] = "receiveMessageIfAvailable"
             /\ queue[PortOf(t)] = <<>>) =>
                /\ pc'[t] = "return"
                /\ result'[t] = Outcome("undefined")
                /\ buffer' = buffer
                /\ queue' = queue
                /\ UNCHANGED <<tstate, portv, sent, received, via, closeDone>>]_vars

\* The worker has closed; nothing is queued for the main thread, whose
\* receiveMessageIfAvailable returns undefined.
C12_Witness ==
    /\ op["main"] = "receiveMessageIfAvailable"
    /\ pc["main"] = "return"
    /\ result["main"] = Outcome("undefined")
    /\ queue["port1"] = <<>>
    /\ closeDone
    /\ buffer[receiveCounter["port1"]] = [i \in 0..1 |-> 1]

\* C13: a thread in receiveMessageIfAvailable is never suspended in
\* Atomics.wait.
C13_IfAvailableNeverBlocks ==
    \A t \in Threads :
        op[t] = "receiveMessageIfAvailable" => pc[t] # "w_blocked"

\* C14: in the exchange where each thread answers every payload with a post,
\* every receiveMessage call returns the payload its peer posted last, never
\* closure; each counter counts the posts of its one direction alone (while no
\* port is closed it is the number of completed posts not yet received, 0 or
\* 1); and the exchange runs to its end: both threads post and receive
\* all MaxSend payloads.
C14_PingPong ==
    /\ [](\A t \in Threads :
            LET p == PortOf(t) IN
            /\ pc[t] = "return" /\ op[t] = "receiveMessage" =>
                  /\ result[t] = Returned(sent[Peer(p)])
                  /\ received[p] = UpTo(sent[Peer(p)])
            /\ ctor[p] = "ok" /\ ~closeBegun =>
                  /\ buffer[postCounter[p]][0] = Completed(p) - Len(received[Peer(p)])
                  /\ buffer[postCounter[p]][0] \in {0, 1})
    /\ <>(\A p \in Ports : sent[p] = MaxSend /\ received[p] = UpTo(MaxSend))

\* Both threads have received all the payloads of the exchange and closed.
C14_Witness ==
    /\ \A p \in Ports : sent[p] = MaxSend /\ received[p] = UpTo(MaxSend)
    /\ \A p \in Ports : tstate[p] = "closed"
    /\ \A t \in Threads : pc[t] = "idle"

\* C15: the value of an open counter never exceeds the number of payloads that
\* are queued for the port that receives on it or taken by it and not yet
\* accounted for; so a receiveMessage call whose wait() has returned true on
\* an open counter finds a payload in the transport queue.
C15_QueuedBeforeCounted ==
    \A t \in Receivers :
        LET p == PortOf(t)
            c == receiveCounter[p] IN
        ctor[p] = "ok" /\ buffer[c][1] = 0 =>
            /\ buffer[c][0] <= Len(queue[p]) + Len(InHand(t))
            /\ pc[t] = "rm_receive" /\ waitResult[t] => queue[p] # <<>>

\* A receiveMessage call that began with nothing queued has left wait() on
\* the open counter, whose value the worker has raised without having
\* notified yet; the payload is in the queue.
C15_Witness ==
    /\ pc["main"] = "rm_receive"
    /\ waitResult["main"]
    /\ call["main"].empty
    /\ buffer[receiveCounter["port1"]] = [i \in 0..1 |-> IF i = 0 THEN 1 ELSE 0]
    /\ pc["worker"] = "pm_notify"
    /\ queue["port1"] = <<Msg(1)>>

\* C16 as stated: the value of each shared counter is never negative, in every
\* reachable state, close included.
C16_NeverNegative ==
    \A c \in Counters : buffer[c][0] >= 0

\* C16: while a shared counter is open (its closed word is unset) its value is
\* never negative, whatever the interleaving of postMessage, receiveMessage,
\* receiveMessageIfAvailable and listener delivery on the two endpoints.
C16_OpenNeverNegative ==
    \A c \in Counters : buffer[c][1] = 0 => buffer[c][0] >= 0

\* Payloads went to receiveMessage, to receiveMessageIfAvailable and to a
\* listener, and the counter the main thread receives on is open and down to 0.
C16_Witness ==
    /\ via["port1"] = {"receiveMessage", "receiveMessageIfAvailable", "listener"}
    /\ buffer[receiveCounter["port1"]] = [w \in {0, 1} |-> 0]

\* The number of decrement() calls port p has made on its incoming counter:
\* every payload handed to a consumer was counted off once.
Decrements(p) == Len(received[p])

\* C17 as stated: at any instant the value of each shared counter is the
\* number of posts its writer has counted minus the number its reader has
\* counted off.
C17_SentMinusAccounted ==
    \A p \in Ports :
        ctor[p] = "ok" =>
            buffer[postCounter[p]][0] = Completed(p) - Decrements(Peer(p))

\* C17: while a shared counter is open its value is the number of posts its
\* writer has counted minus the number its reader has counted off; the close()
\* that closes it adds at most the sentinel 1 to that difference.
C17_OpenCount ==
    \A p \in Ports :
        ctor[p] = "ok" =>
            LET c == postCounter[p]
                d == buffer[c][0] - (Completed(p) - Decrements(Peer(p)))
            IN  /\ d \in {0, 1}
                /\ buffer[c][1] = 0 => d = 0

\* The worker has counted three posts, the main thread has counted one off,
\* and the open counter stands at 2.
C17_Witness ==
    /\ Completed("port2") = 3
    /\ Decrements("port1") = 1
    /\ ctor["port2"] = "ok"
    /\ buffer[postCounter["port2"]] = [w \in {0, 1} |-> IF w = 0 THEN 2 ELSE 0]

\* Thread t takes the step.
Acts(t) == pc'[t] # pc[t]

ReceiveOps == {"receiveMessage", "receiveMessageIfAvailable", "messageHandler"}

Decrementing == {"rm_decrement", "if_decrement", "mh_decrement"}

\* The step is the second compare-exchange of a close(): it stores the
\* sentinel 1 into the value of counter c, which is 0 and flagged closed.
StoresSentinel(c) ==
    /\ \E u \in Threads : Acts(u) /\ pc[u] = "cl_value" /\ ClosingCounter(u) = c
    /\ buffer[c] = [w \in {0, 1} |-> w]
    /\ buffer'[c] = [w \in {0, 1} |-> 1]

\* C18 as stated: a counter's value is raised only by its outgoing owner and
\* lowered only by its incoming owner; postMessage leaves the sender's incoming
\* counter alone, the receive operations leave the receiver's outgoing counter
\* alone, and no operation of the incoming owner, close included, raises it.
C18_RolesCloseIncluded ==
    [][\A p \in Ports :
          ctor[p] = "ok" =>
              LET out == postCounter[p]
                  in == receiveCounter[p]
                  t == ThreadOf(p)
              IN  /\ buffer'[out][0] > buffer[out][0] => Acts(t)
                  /\ buffer'[in][0] < buffer[in][0] => Acts(t)
                  /\ Acts(t) /\ op[t] = "postMessage" => buffer'[in] = buffer[in]
                  /\ Acts(t) /\ op[t] \in ReceiveOps => buffer'[out] = buffer[out]
                  /\ Acts(t) => buffer'[in][0] <= buffer[in][0]]_vars

\* C18: a counter's value is raised by one only by the increment of its
\* outgoing owner's postMessage and lowered by one only by the decrement of its
\* incoming owner's receive operations; postMessage leaves the sender's
\* incoming counter alone and the receive operations leave the receiver's
\* outgoing counter alone.  The one other change is the sentinel of close(),
\* which either owner stores into a value of 0, the incoming owner too.
C18_RoleSplit ==
    [][\A p \in Ports :
          ctor[p] = "ok" =>
              LET out == postCounter[p]
                  in == receiveCounter[p]
                  t == ThreadOf(p)
              IN  /\ buffer'[out][0] > buffer[out][0] =>
                        \/ /\ Acts(t)
                           /\ pc[t] = "pm_add"
                           /\ buffer'[out][0] = buffer[out][0] + 1
                        \/ StoresSentinel(out)
                  /\ buffer'[in][0] < buffer[in][0] =>
                        /\ Acts(t)
                        /\ pc[t] \in Decrementing
                        /\ buffer'[in][0] = buffer[in][0] - 1
                  /\ Acts(t) /\ op[t] = "postMessage" => buffer'[in] = buffer[in]
                  /\ Acts(t) /\ op[t] \in ReceiveOps => buffer'[out] = buffer[out]
                  /\ Acts(t) /\ buffer'[in][0] > buffer[in][0] =>
                        op[t] = "close" /\ StoresSentinel(in)]_vars

\* The worker has counted two posts and the main thread has counted both off
\* through receiveMessage; then the main thread's close() has stored the
\* sentinel into its incoming counter.
C18_Witness ==
    /\ Completed("port2") = 2
    /\ Decrements("port1") = 2
    /\ "receiveMessage" \in via["port1"]
    /\ op["main"] = "close"
    /\ pc["main"] = "cl_notify"
    /\ which["main"] = "receive"
    /\ buffer[receiveCounter["port1"]] = [w \in {0, 1} |-> 1]

\* C19: messageHandler is attached to the inner port exactly when a 'message'
\* listener is installed, and never more than once; a payload is handed to a
\* consumer (the listeners, receiveMessage or receiveMessageIfAvailable) in
\* the very step that counts it off the incoming counter, once.
C19_ShimOncePerPayload ==
    /\ [](\A p \in Ports :
            /\ shim[p] = IF listeners[p] > 0 THEN 1 ELSE 0
            /\ op[ThreadOf(p)] = "messageHandler" => listeners[p] > 0)
    /\ [][\A p \in Ports :
            ctor[p] = "ok" =>
                LET c == receiveCounter[p] IN
                /\ received'[p] # received[p] =>
                      /\ Len(received'[p]) = Len(received[p]) + 1
                      /\ buffer'[c][0] = buffer[c][0] - 1
                /\ buffer'[c][0] < buffer[c][0] =>
                      Len(received'[p]) = Len(received[p]) + 1]_vars

\* Two payloads went to listeners and to nothing else, the listeners have been
\* removed again, and the open incoming counter is back at 0.
C19_Witness ==
    /\ via["port1"] = {"listener"}
    /\ received["port1"] = <<1, 2>>
    /\ listeners["port1"] = 0
    /\ shim["port1"] = 0
    /\ ctor["port1"] = "ok"
    /\ buffer[receiveCounter["port1"]] = [w \in {0, 1} |-> 0]

\* wait() returns in this step of thread t.
WaitLeaves(t) == pc[t] \in Waiting /\ pc'[t] \notin Waiting

\* C21 as stated: the result of wait() alone tells a release by a message from
\* a release by closure.  false being the timed-out result, true is then the
\* result of a release by a message: the counter is open when wait() returns it.
C21_ThreeOutcomes ==
    [][\A t \in Threads :
          WaitLeaves(t) /\ waitResult'[t] =>
              buffer[receiveCounter[PortOf(t)]][1] = 0]_vars

\* C21: wait() has two results.  It returns false exactly when Atomics.wait
\* timed out, which takes a timeout; it returns true when it loaded a value
\* other than 0 or a set closed flag, the one result for both.
C21_TwoOutcomes ==
    [][\A t \in Threads :
          WaitLeaves(t) =>
              LET b == buffer[receiveCounter[PortOf(t)]] IN
              /\ waitResult'[t] \in BOOLEAN
              /\ pc'[t] = AfterWait(op[t])
              /\ waitResult'[t] <=>
                    \/ pc[t] \in {"w_value", "w_wait"} /\ b[0] # 0
                    \/ pc[t] = "w_closed" /\ b[1] # 0
              /\ ~waitResult'[t] <=>
                    /\ options[t].timeout # "none"
                    /\ \/ pc[t] = "w_blocked"
                       \/ pc[t] = "w_wait" /\ b[0] = 0]_vars

\* wait() has returned true to receiveMessage on a closed counter with no
\* payload queued: a release by closure with the result of a release by a
\* message.
C21_Witness ==
    /\ pc["main"] = "rm_receive"
    /\ waitResult["main"]
    /\ buffer[receiveCounter["port1"]] = [w \in {0, 1} |-> 1]
    /\ queue["port1"] = <<>>
    /\ received["port1"] = <<1>>

\* value != 0 or closed, on the counter thread t waits on.
WaitPredicate(t) ==
    LET b == buffer[receiveCounter[PortOf(t)]] IN b[0] # 0 \/ b[1] # 0

\* What every step does to a thread inside wait(): it returns true only on
\* loading a word that makes the predicate hold; a thread that Atomics.wait
\* lets go with 'ok' loads the words again; and a thread blocks only on
\* finding the value 0.
WaitLoops(t) ==
    /\ WaitLeaves(t) /\ waitResult'[t] => WaitPredicate(t)
    /\ pc[t] = "w_blocked" /\ pc'[t] # "w_blocked" =>
          \/ pc'[t] = "w_value"
          \/ WaitLeaves(t) /\ ~waitResult'[t]
    /\ pc[t] # "w_blocked" /\ pc'[t] = "w_blocked" =>
          /\ pc[t] = "w_wait"
          /\ buffer[receiveCounter[PortOf(t)]][0] = 0
    /\ pc[t] = "w_wait" /\ pc'[t] # "w_wait" /\ ~WaitPredicate(t) =>
          IF options[t].timeout = "zero"
            THEN WaitLeaves(t) /\ ~waitResult'[t]
            ELSE pc'[t] = "w_blocked"

WokenNow == {x \in Threads : pc[x] = "w_blocked" /\ pc'[x] = "w_value"}

\* C23: increment() adds exactly 1 to the value of the outgoing counter and
\* to nothing else, and goes on to notify exactly when the value was 0 before;
\* the notify wakes one waiter if there is one; and a receiver inside wait()
\* with no timeout, on a counter whose value is not 0, gets out of wait().
C23_NoLostWakeup ==
    /\ [][\A t \in Threads :
            LET c == postCounter[PortOf(t)] IN
            /\ pc[t] = "pm_add" /\ pc'[t] # "pm_add" =>
                  /\ buffer' = [buffer EXCEPT ![c][0] = @ + 1]
                  /\ pc'[t] = "pm_notify" <=> buffer[c][0] = 0
                  /\ pc'[t] = "idle" <=> buffer[c][0] # 0
                  /\ WokenNow = {}
            /\ pc[t] = "pm_notify" /\ pc'[t] # "pm_notify" =>
                  /\ buffer' = buffer
                  /\ WokenNow \subseteq Waiters(c)
                  /\ Cardinality(WokenNow) =
                         IF Waiters(c) = {} THEN 0 ELSE 1]_vars
    /\ \A t \in Receivers :
          (/\ pc[t] \in Waiting
           /\ options[t].timeout = "none"
           /\ buffer[receiveCounter[PortOf(t)]][0] # 0)
              ~> (pc[t] \notin Waiting)

\* The lost-wakeup window: the main thread is blocked with no timeout on an
\* open counter, the worker has added 1 to the value 0, its notify is to come.
C23_Witness ==
    /\ pc["main"] = "w_blocked"
    /\ options["main"].timeout = "none"
    /\ pc["worker"] = "pm_notify"
    /\ buffer[receiveCounter["port1"]] = [w \in {0, 1} |-> 1 - w]
    /\ ~closeBegun

\* C24: close() on a counter whose closed flag is already set, by either
\* endpoint and whatever the value, is over with its first compare-exchange:
\* it changes neither word of either counter and wakes nobody; and the later
\* statements of close() are only ever run by the call that set the flag.
C24_CloseIdempotent ==
    [][\A t \in Threads :
          /\ /\ pc[t] = "cl_closed"
             /\ pc'[t] # "cl_closed" \/ which'[t] # which[t]
             /\ buffer[ClosingCounter(t)][1] # 0
             => /\ buffer' = buffer
                /\ WokenNow = {}
                /\ pc'[t] \notin {"cl_value", "cl_notify"}
          /\ pc[t] # "cl_value" /\ pc'[t] = "cl_value" =>
                /\ buffer[ClosingCounter(t)][1] = 0
                /\ buffer'[ClosingCounter(t)][1] = 1]_vars

\* A close() has returned, and the main thread's close() is at the first
\* compare-exchange on its incoming counter, which is closed and holds 2.
C24_Witness ==
    /\ closeDone
    /\ op["main"] = "close"
    /\ pc["main"] = "cl_closed"
    /\ which["main"] = "receive"
    /\ buffer[receiveCounter["port1"]] = [w \in {0, 1} |-> 2 - w]

\* C25: the closed flag of a counter is 0 or 1, and no step of either endpoint
\* takes it from 1 back to 0; the transport of a port whose close() was called
\* is never open again, and one that is released stays released.
C25_ClosureOneWay ==
    /\ [](\A c \in Counters : buffer[c][1] \in {0, 1})
    /\ [][/\ \A c \in Counters : buffer[c][1] = 1 => buffer'[c][1] = 1
          /\ \A p \in Ports :
                /\ tstate[p] # "open" => tstate'[p] # "open"
                /\ tstate[p] = "closed" => tstate'[p] = "closed"
          /\ closeDone => closeDone']_vars

\* The worker's port is closed and released and both counters are closed;
\* after that the worker is posting and the main thread is counting a payload
\* off.
C25_Witness ==
    /\ closeDone
    /\ tstate["port2"] = "closed"
    /\ \A c \in Counters : buffer[c][1] = 1
    /\ pc["worker"] = "pm_add"
    /\ pc["main"] = "rm_decrement"

\* ------------------------------- the single-buffer SyncMessagePort (index.ts)
\* enum BufferState
AwaitingMessage == 0

MessageSent == 1

Closed == 2

\* The 4-byte buffer createChannel() queues on both ports.
Sab4 == [kind |-> "sab4", v |-> 1]

\* The one Int32 both ports share: it is kept in word 0 of buffer 1.
StateWord == buffer[1][0]

StateWordSet(v) == [buffer EXCEPT ![1][0] = v]

\* state & BufferState.Closed
ClosedBit(v) == IF v >= Closed THEN Closed ELSE 0

\* createChannel(): the same buffer is queued on each port.
InitSingleBuffer ==
    /\ queue = [p \in Ports |-> <<Sab4>>]
    /\ Fresh

\* new SyncMessagePort(port): takes the buffer off the port.
SbConstructor(t) ==
    LET p == PortOf(t) IN
    /\ pc[t] = "idle"
    /\ ctor[p] = "none"
    /\ queue' = Dequeued(p)
    /\ ctor' = [ctor EXCEPT ![p] =
                   IF Truthy(receiveMessageOnPort(p)) THEN "ok" ELSE "error"]
    /\ UNCHANGED <<buffer, tstate, postCounter, receiveCounter, listeners,
                   shim, locals, sent, received, via, closeDone>>

\* this.port.postMessage(value, transferList);
SbPostMessage(t) ==
    LET p == PortOf(t)
        n == sent[p] + 1
    IN
    /\ Idle(t)
    /\ t \in Senders
    /\ sent[p] < MaxSend
    /\ queue' = portPostMessage(p, Msg(n))
    /\ sent' = [sent EXCEPT ![p] = n]
    /\ Goto(t, "postMessage", "sb_exchange")
    /\ UNCHANGED <<buffer, tstate, portv, options, message, waitResult, which,
                   result, call, owed, received, via, closeDone>>

\* if (Atomics.compareExchange(buffer, 0, AwaitingMessage, MessageSent)
\*     === AwaitingMessage) ...
SbPostExchange(t) ==
    /\ pc[t] = "sb_exchange"
    /\ IF StateWord = AwaitingMessage
         THEN /\ buffer' = StateWordSet(MessageSent)
              /\ Goto(t, "postMessage", "sb_notify")
         ELSE /\ buffer' = buffer
              /\ Goto(t, "idle", "idle")
    /\ UNCHANGED <<queue, tstate, portv, options, message, waitResult, which,
                   result, call, owed, sent, received, via, closeDone>>

\* Atomics.notify(this.buffer, 0): every blocked thread goes on with 'ok'.
SbWoken(t, l) ==
    [x \in Threads |->
        IF x = t THEN l ELSE IF pc[x] = "sb_blocked" THEN "sb_second" ELSE pc[x]]

\* ... Atomics.notify(this.buffer, 0);
SbPostNotify(t) ==
    /\ pc[t] = "sb_notify"
    /\ pc' = SbWoken(t, "idle")
    /\ op' = [op EXCEPT ![t] = "idle"]
    /\ UNCHANGED <<shared, portv, options, message, waitResult, which, result,
                   call, owed, sent, received, via, closeDone>>

\* const previousState = Atomics.compareExchange(buffer, 0, MessageSent,
\* AwaitingMessage); if (previousState === BufferState.Closed) {...}
SbReceiveMessage(t, timeout) ==
    /\ Idle(t)
    /\ t \in Receivers
    /\ buffer' = IF StateWord = MessageSent
                   THEN StateWordSet(AwaitingMessage) ELSE buffer
    /\ IF StateWord = Closed
         THEN /\ \E o \in OptionsWith(timeout) :
                    /\ result' = [result EXCEPT ![t] = channelClosed(o)]
                    /\ options' = [options EXCEPT ![t] = o]
              /\ Goto(t, "receiveMessage", "return")
         ELSE /\ Goto(t, "receiveMessage", "sb_receive")
              /\ options' = [options EXCEPT ![t].timeout = timeout]
              /\ result' = result
    /\ UNCHANGED <<queue, tstate, portv, message, waitResult, which, call,
                   owed, sent, received, via, closeDone>>

\* if (message) return message.message;
SbTake(t) ==
    LET p == PortOf(t)
        m == receiveMessageOnPort(p)
    IN
    /\ queue' = Dequeued(p)
    /\ Deliver(p, m.v, "receiveMessage")
    /\ Finish(t, Returned(m.v))

\* let message = receiveMessageOnPort(this.port);
SbReceiveFirst(t) ==
    /\ pc[t] = "sb_receive"
    /\ IF receiveMessageOnPort(PortOf(t)) # None
         THEN SbTake(t)
         ELSE /\ Goto(t, "receiveMessage", "sb_wait")
              /\ UNCHANGED <<queue, received, via, options, message,
                             waitResult, which, result, call, owed>>
    /\ UNCHANGED <<buffer, tstate, portv, sent, closeDone>>

\* const result = Atomics.wait(buffer, 0, AwaitingMessage, options?.timeout);
SbAtomicsWait(t) ==
    /\ pc[t] = "sb_wait"
    /\ IF StateWord # AwaitingMessage
         THEN /\ pc' = [pc EXCEPT ![t] = "sb_second"]
              /\ waitResult' = [waitResult EXCEPT ![t] = TRUE]
         ELSE IF options[t].timeout = "zero"
                THEN /\ pc' = [pc EXCEPT ![t] = "sb_second"]
                     /\ waitResult' = [waitResult EXCEPT ![t] = FALSE]
                ELSE /\ pc' = [pc EXCEPT ![t] = "sb_blocked"]
                     /\ waitResult' = waitResult
    /\ UNCHANGED <<shared, portv, op, options, message, which, result, call,
                   owed, sent, received, via, closeDone>>

\* The timeout elapses in a blocked thread: 'timed-out'.
SbWaitTimesOut(t) ==
    /\ pc[t] = "sb_blocked"
    /\ options[t].timeout = "finite"
    /\ pc' = [pc EXCEPT ![t] = "sb_second"]
    /\ waitResult' = [waitResult EXCEPT ![t] = FALSE]
    /\ UNCHANGED <<shared, portv, op, options, message, which, result, call,
                   owed, sent, received, via, closeDone>>

\* message = receiveMessageOnPort(this.port); if (message) return ...;
\* if (result === 'timed-out') {...}
SbReceiveSecond(t) ==
    /\ pc[t] = "sb_second"
    /\ IF receiveMessageOnPort(PortOf(t)) # None
         THEN SbTake(t)
         ELSE /\ IF ~waitResult[t]
                   THEN \E o \in OptionsWith(options[t].timeout) :
                           FinishWith(t, o, timedOut(o))
                   ELSE /\ Goto(t, "receiveMessage", "sb_and")
                        /\ UNCHANGED <<options, message, waitResult, which,
                                       result, call, owed>>
              /\ UNCHANGED <<queue, received, via>>
    /\ UNCHANGED <<buffer, tstate, portv, sent, closeDone>>

\* const oldState = Atomics.and(this.buffer, 0, BufferState.Closed);
\* assert.equal(oldState & BufferState.Closed, BufferState.Closed); ...
SbReceiveAnd(t) ==
    /\ pc[t] = "sb_and"
    /\ buffer' = StateWordSet(ClosedBit(StateWord))
    /\ IF ClosedBit(StateWord) = Closed
         THEN \E o \in OptionsWith(options[t].timeout) :
                 FinishWith(t, o, channelClosed(o))
         ELSE Finish(t, Outcome("AssertionError"))
    /\ UNCHANGED <<queue, tstate, portv, sent, received, via, closeDone>>

\* close(): Atomics.or(this.buffer, 0, BufferState.Closed);
SbClose(t) ==
    /\ Idle(t)
    /\ buffer' = StateWordSet(IF StateWord >= Closed THEN StateWord
                              ELSE StateWord + Closed)
    /\ Goto(t, "close", "sb_close_notify")
    /\ UNCHANGED <<queue, tstate, portv, options, message, waitResult, which,
                   result, call, owed, sent, received, via, closeDone>>

\* Atomics.notify(this.buffer, 0);
SbCloseNotify(t) ==
    /\ pc[t] = "sb_close_notify"
    /\ pc' = SbWoken(t, "sb_close_port")
    /\ UNCHANGED <<shared, portv, op, options, message, waitResult, which,
                   result, call, owed, sent, received, via, closeDone>>

\* this.port.close();
SbClosePort(t) ==
    LET p == PortOf(t) IN
    /\ pc[t] = "sb_close_port"
    /\ tstate' = [tstate EXCEPT ![p] = IF @ = "open" THEN "closing" ELSE @]
    /\ Goto(t, "idle", "idle")
    /\ closeDone' = TRUE
    /\ UNCHANGED <<buffer, queue, portv, options, message, waitResult, which,
                   result, call, owed, sent, received, via>>

NextSingleBuffer ==
    \/ \E t \in Threads : SbConstructor(t)
    \/ \E t \in Threads : SbPostMessage(t)
    \/ \E t \in Threads : SbPostExchange(t)
    \/ \E t \in Threads : SbPostNotify(t)
    \/ \E t \in Threads, tm \in Timeouts : SbReceiveMessage(t, tm)
    \/ \E t \in Threads : SbReceiveFirst(t)
    \/ \E t \in Threads : SbAtomicsWait(t)
    \/ \E t \in Threads : SbWaitTimesOut(t)
    \/ \E t \in Threads : SbReceiveSecond(t)
    \/ \E t \in Threads : SbReceiveAnd(t)
    \/ \E t \in Threads : SbClose(t)
    \/ \E t \in Threads : SbCloseNotify(t)
    \/ \E t \in Threads : SbClosePort(t)
    \/ \E t \in Threads : Returns(t)
    \/ \E t \in Threads : TransportClosed(t)

SingleBufferSpec == InitSingleBuffer /\ [][NextSingleBuffer]_vars

\* C26: in the single-buffer receiveMessage, whenever the assertion on the
\* Closed bit is reached (Atomics.wait did not time out and the second
\* receiveMessageOnPort found nothing) the shared state has its Closed bit set.
C26_AssertionHolds ==
    \A t \in Threads : pc[t] = "sb_and" => ClosedBit(StateWord) = Closed

\* The results of a receiveMessage call that got no payload.
NoPayload == {"timeoutValue", "TimeoutException", "closedValue", "ClosedError"}

\* C27: the steps of a receiveMessage call change the counters and the
\* transport queues only by taking a payload and counting it off, and a call
\* that took one returns it; so a call that ends with the timeout or the closed
\* outcome has changed neither, has handed nothing over and holds nothing.
\* While no port is closed, what is queued when a call has timed out is exactly
\* what was posted and not yet handed over, in order.
C27_NothingConsumed ==
    /\ [][\A t \in Receivers :
            Acts(t) /\ (op[t] = "receiveMessage" \/ op'[t] = "receiveMessage") =>
                /\ pc'[t] # "rm_decrement" /\ pc[t] # "rm_decrement" =>
                      /\ queue' = queue
                      /\ buffer' = buffer
                      /\ received' = received
                /\ pc[t] = "rm_decrement" =>
                      /\ pc'[t] = "return"
                      /\ result'[t] = Returned(message[t].v)
                /\ pc'[t] = "return" /\ pc[t] # "rm_decrement" =>
                      /\ result'[t].kind \in NoPayload
                      /\ message'[t] = None]_vars
    /\ [](\A t \in Receivers :
            /\ op[t] = "receiveMessage"
            /\ pc[t] = "return"
            /\ result[t].kind \in {"timeoutValue", "TimeoutException"}
            /\ ~closeBegun
            => received[PortOf(t)] \o Payloads(queue[PortOf(t)])
                   = UpTo(sent[Peer(PortOf(t))]))

\* A receiveMessage call begun on an empty queue has timed out; the payload
\* that arrived meanwhile is queued and counted.
C27_Witness ==
    /\ op["main"] = "receiveMessage"
    /\ pc["main"] = "return"
    /\ result["main"].kind \in {"timeoutValue", "TimeoutException"}
    /\ call["main"].empty
    /\ queue["port1"] = <<Msg(1)>>
    /\ buffer[receiveCounter["port1"]] = [w \in {0, 1} |-> 1 - w]
    /\ pc["worker"] = "idle"

\* The number of posts counted on the counter a close() is closing that have
\* not been counted off.
PendingOn(t) ==
    LET p == PortOf(t) IN
    IF which[t] = "post"
      THEN Completed(p) - Decrements(Peer(p))
      ELSE Completed(Peer(p)) - Decrements(p)

\* C28: when the close() that set the closed flag comes to the value, the
\* value is the number of posts counted and not counted off; if it is not 0
\* close() leaves it (and notifies nobody), if it is 0 close() stores the
\* sentinel 1.  A thread in wait() that finds the closed flag set returns true
\* without blocking, whatever the value, and a receiveMessage call begun after
\* a close() has returned never gets to Atomics.wait.
C28_CloseKeepsCount ==
    /\ [](\A t \in Threads :
            pc[t] = "cl_value" => buffer[ClosingCounter(t)][0] = PendingOn(t))
    /\ [][\A t \in Threads :
            /\ pc[t] = "cl_value" /\ Acts(t) =>
                  LET c == ClosingCounter(t) IN
                  IF buffer[c][0] = 0
                    THEN /\ buffer' = [buffer EXCEPT ![c][0] = 1]
                         /\ pc'[t] = "cl_notify"
                    ELSE /\ buffer' = buffer
                         /\ pc'[t] # "cl_notify"
                         /\ WokenNow = {}
            /\ /\ pc[t] \in {"w_value", "w_closed"}
               /\ ctor[PortOf(t)] = "ok"
               /\ buffer[receiveCounter[PortOf(t)]][1] = 1
               /\ Acts(t)
               => \/ WaitLeaves(t) /\ waitResult'[t]
                  \/ /\ pc[t] = "w_value"
                     /\ pc'[t] = "w_closed"
                     /\ buffer[receiveCounter[PortOf(t)]][0] = 0]_vars
    /\ [](\A t \in Receivers :
            op[t] = "receiveMessage" /\ call[t].channel = "closed" =>
                pc[t] \notin {"w_wait", "w_blocked"})

\* The worker counted two posts and closed its port: the close() found the
\* value 2 and left it.  The main thread has since counted both payloads off;
\* its next receiveMessage, begun after the close, is in wait() on the closed
\* counter, whose value is 0.
C28_Witness ==
    /\ closeDone
    /\ pc["worker"] = "idle"
    /\ tstate["port1"] = "open"
    /\ received["port1"] = <<1, 2>>
    /\ via["port1"] = {"receiveMessage"}
    /\ sent["port2"] = 2
    /\ op["main"] = "receiveMessage"
    /\ pc["main"] = "w_closed"
    /\ call["main"].channel = "closed"
    /\ buffer[receiveCounter["port1"]] = [w \in {0, 1} |-> w]

====
